---- MODULE Spec2Model ----
(***************************************************************************)
(* Generation-and-asset lifecycle of the two pages of the Tone composer    *)
(* front end: AITone (Fast / Direct modes) and Chatbot (Fast protocol      *)
(* only).  One session = one mounted page component.  Every handler is cut *)
(* at its awaits: the code between two awaits runs to completion on the    *)
(* single JavaScript thread, and the state updates it makes are committed  *)
(* together before any other event is served.                              *)
(***************************************************************************)
EXTENDS Integers, Sequences, FiniteSets, TLC

(* ------------------------------ bounds --------------------------------- *)
\* generate invocations followed in one behaviour
MaxGen == 3
\* onDownload invocations followed in one behaviour
MaxExports == 1

(* ------------------------------ values --------------------------------- *)
\* useState<string | null>(null): the null of abc and error
Null == "null"
\* useState<string | null>(null): the null of audioUrl (object URLs are numbered from 1)
NoHandle == 0

Pages == {"AITone", "Chatbot"}
Modes == {"fast", "direct"}
Kinds == {"wav", "midi"}

\* texts the notation endpoint may answer with ({ abc: string }, any string)
Notations == {"", "X:1", "X:2"}

\* values a rejected request may throw: an Error with a message, or a non-Error
Thrown == {[isError |-> TRUE, message |-> "Network error"],
           [isError |-> FALSE, message |-> Null]}

\* JavaScript truthiness of a string | null value
Truthy(s) == s # Null /\ s # ""

GenIds == 1..MaxGen
ExportIds == 1..MaxExports
Handles == 1..(MaxGen + MaxExports)

NotationEndpoint(p) == IF p = "AITone" THEN "/api/gemini/abc" ELSE "/api/hf/abc"
RenderEndpoint == "/api/abc/audio/wav"
DirectEndpoint == "/api/gemini/audio/wav"
ExportEndpoint(kind) == IF kind = "wav" THEN "/api/abc/audio/wav" ELSE "/api/abc/audio/midi"
Filename(p, kind) ==
    IF p = "AITone" THEN (IF kind = "wav" THEN "ai-tone.wav" ELSE "ai-tone.mid")
                    ELSE (IF kind = "wav" THEN "fusion.wav" ELSE "fusion.mid")

\* the bytes a binary endpoint answers with, identified by the request they answer
Blob(endpoint, payload, call) == [endpoint |-> endpoint, abc |-> payload, call |-> call]
NoBlob == [endpoint |-> Null, abc |-> Null, call |-> <<>>]

VARIABLES
    page,        \* which page component this session is
    mode,        \* useState("fast")         (AITone; Chatbot has only the fast protocol)
    loading,     \* useState(false)
    error,       \* useState<string|null>(null)
    abc,         \* useState<string|null>(null): the published notation
    audioUrl,    \* useState<string|null>(null): the published audio handle
    gens,        \* the onGenerate invocations: position, closure, requests issued
    numGens,     \* onGenerate invocations so far
    exports,     \* the onDownload invocations: position, closure
    numExports,  \* onDownload invocations so far
    numHandles,  \* object URLs created so far (URL.createObjectURL)
    live,        \* object URLs created and not revoked
    revokeCount, \* URL.revokeObjectURL calls per object URL
    blobOf,      \* the bytes each live object URL resolves to
    downloads,   \* files offered to the user by downloadBlob, in order
    fastDone,    \* the notations of the Fast generations that ended ready
    mounted      \* the page component is mounted (the session is not torn down)

vars == <<page, mode, loading, error, abc, audioUrl, gens, numGens, exports,
          numExports, numHandles, live, revokeCount, blobOf, downloads,
          fastDone, mounted>>

\* no value thrown (yet)
NoThrow == [isError |-> FALSE, message |-> Null]

\* An onGenerate invocation.  pc is the await it is suspended at ("notation",
\* "render", "direct") or how it ended ("ready", "failed").  mode and audioUrl are
\* the values its closure captured from the render it was clicked in; res is
\* res.abc; sent is the payload of its render request; issued lists the endpoints
\* it has requested.  startAbc, failedAt, thrown and created record what the
\* invocation saw and did, for the properties below.  The record of a finished
\* invocation is kept until the next onGenerate starts (Forget).
NoGen == [pc |-> "unused", mode |-> Null, audioUrl |-> NoHandle, startAbc |-> Null,
          res |-> Null, sent |-> Null, issued |-> <<>>, failedAt |-> Null,
          thrown |-> NoThrow, created |-> NoHandle]

\* An onDownload invocation.  pc is "returned" (the early return), "flight" (the
\* await), "done" or "failed"; kind and abc are the values its closure captured,
\* kept while the invocation is suspended at its await (and, for an early
\* return, until the next onDownload starts).
NoExport == [pc |-> "unused", kind |-> Null, abc |-> Null]

InFlightPc == {"notation", "render", "direct"}

\* the records with the finished invocations reduced to how they ended
Forget(recs, none) ==
    [i \in DOMAIN recs |->
        IF recs[i].pc \in {"ready", "failed", "returned", "done"}
        THEN [none EXCEPT !.pc = recs[i].pc] ELSE recs[i]]

Init ==
    /\ page \in Pages
    /\ mode = "fast"
    /\ loading = FALSE
    /\ error = Null
    /\ abc = Null
    /\ audioUrl = NoHandle
    /\ gens = [g \in GenIds |-> NoGen]
    /\ numGens = 0
    /\ exports = [e \in ExportIds |-> NoExport]
    /\ numExports = 0
    /\ numHandles = 0
    /\ live = {}
    /\ revokeCount = [h \in Handles |-> 0]
    /\ blobOf = [h \in Handles |-> NoBlob]
    /\ downloads = <<>>
    /\ fastDone = {}
    /\ mounted = TRUE

\* a state setter called by a continuation: React drops the update of a
\* component that is no longer mounted
SetState(new, old) == IF mounted THEN new ELSE old

(* --------------------------- mode buttons ------------------------------ *)
SetModeClears(m) ==
    /\ mounted
    /\ page = "AITone"
    /\ mode' = m
    /\ abc' = IF m # mode THEN Null ELSE abc
    /\ UNCHANGED <<fastDone, mounted, page, loading, error, audioUrl, gens, numGens,
                   exports, numExports, numHandles, live, revokeCount, blobOf,
                   downloads>>

SetModeCancels(m) ==
    /\ mounted
    /\ page = "AITone"
    /\ mode' = m
    /\ gens' = [g \in GenIds |->
                  IF m # mode /\ gens[g].pc \in InFlightPc
                  THEN [gens[g] EXCEPT !.pc = "failed"] ELSE gens[g]]
    /\ loading' = IF m # mode THEN FALSE ELSE loading
    /\ UNCHANGED <<fastDone, mounted, page, error, abc, audioUrl, numGens,
                   exports, numExports, numHandles, live, revokeCount, blobOf,
                   downloads>>

\* onClick={() => setMode(m)}: only AITone has the mode buttons
SetMode(m) ==
    /\ mounted
    /\ page = "AITone"
    /\ mode' = m
    /\ UNCHANGED <<mounted, fastDone, page, loading, error, abc, audioUrl, gens, numGens, exports,
                   numExports, numHandles, live, revokeCount, blobOf, downloads>>

(* ------------------------- object URL registry ------------------------- *)
\* URL.createObjectURL hands out a fresh URL each time
NewHandle == numHandles + 1

ReleaseNothing(url) == {}

\* if (audioUrl) URL.revokeObjectURL(audioUrl): the URLs the publishing step revokes
ReleasePrev(url) == IF url # NoHandle THEN {url} ELSE {}

PublishReleasesInstalled(prev, wav) ==
    /\ numHandles' = NewHandle
    /\ revokeCount' = [revokeCount EXCEPT ![NewHandle] = 1]
    /\ live' = live
    /\ blobOf' = blobOf
    /\ audioUrl' = SetState(NewHandle, audioUrl)

\* if (audioUrl) URL.revokeObjectURL(audioUrl); setAudioUrl(URL.createObjectURL(wav));
\* prev is the audioUrl of the closure that runs these two lines
Publish(prev, wav) ==
    /\ numHandles' = NewHandle
    /\ revokeCount' = [h \in Handles |->
                          IF h \in ReleasePrev(prev) THEN revokeCount[h] + 1
                                                    ELSE revokeCount[h]]
    /\ live' = (live \ ReleasePrev(prev)) \cup {NewHandle}
    /\ blobOf' = [h \in Handles |->
                     IF h = NewHandle THEN wav
                     ELSE IF h \in ReleasePrev(prev) THEN NoBlob ELSE blobOf[h]]
    /\ audioUrl' = SetState(NewHandle, audioUrl)

(* ------------------------------ generate ------------------------------- *)
GenerateNeverDisabled(l) == FALSE

\* <Button onClick={onGenerate} disabled={loading}>
GenerateDisabled(l) == l

CatchNoFallback(e) == e.message

CatchClears(e) == Null

\* e instanceof Error ? e.message : "Generation failed"
CatchMessage(e) == IF e.isError THEN e.message ELSE "Generation failed"

RunDirectKeepsAbc(a) == a

\* runDirect's first statement, setAbc(null): the notation published while
\* the direct request is in flight
RunDirectAbc(a) == Null

RenderPayloadFromState(resAbc, published) == published

\* the payload of runFast's render request, { abc: res.abc }; published is the
\* abc state of the closure
RenderPayload(resAbc, published) == resAbc

RunFastBothCalls(p) == <<NotationEndpoint(p), RenderEndpoint>>

\* the requests runFast has issued when it suspends at its first await
RunFastFirstCalls(p) == <<NotationEndpoint(p)>>

\* The synchronous part of onGenerate, up to the first await: setError(null),
\* setLoading(true), then runFast up to postJSON or runDirect up to postBlob.
ClickGenerate ==
    /\ mounted
    /\ ~GenerateDisabled(loading)
    /\ numGens < MaxGen
    /\ numGens' = numGens + 1
    /\ error' = Null
    /\ loading' = TRUE
    /\ IF mode = "fast"
       THEN /\ abc' = abc
            /\ gens' = [Forget(gens, NoGen) EXCEPT ![numGens + 1] =
                          [NoGen EXCEPT !.pc = "notation", !.mode = mode,
                                        !.audioUrl = audioUrl, !.startAbc = abc,
                                        !.issued = RunFastFirstCalls(page)]]
       ELSE /\ abc' = RunDirectAbc(abc)
            /\ gens' = [Forget(gens, NoGen) EXCEPT ![numGens + 1] =
                          [NoGen EXCEPT !.pc = "direct", !.mode = mode,
                                        !.audioUrl = audioUrl, !.startAbc = abc,
                                        !.issued = <<DirectEndpoint>>]]
    /\ UNCHANGED <<mounted, fastDone, page, mode, audioUrl, exports, numExports, numHandles, live,
                   revokeCount, blobOf, downloads>>

FailKeepsLoading(g, e) ==
    /\ error' = SetState(CatchMessage(e), error)
    /\ loading' = loading
    /\ gens' = [gens EXCEPT ![g].pc = "failed", ![g].failedAt = gens[g].pc,
                            ![g].thrown = e]
    /\ UNCHANGED <<fastDone, mounted, page, mode, abc, audioUrl, numGens, exports,
                   numExports, numHandles, live, revokeCount, blobOf, downloads>>

\* catch (e) { setError(...) } finally { setLoading(false) }
Fail(g, e) ==
    /\ error' = SetState(CatchMessage(e), error)
    /\ loading' = SetState(FALSE, loading)
    /\ gens' = [gens EXCEPT ![g].pc = "failed", ![g].failedAt = gens[g].pc,
                            ![g].thrown = e]
    /\ UNCHANGED <<mounted, fastDone, page, mode, abc, audioUrl, numGens, exports, numExports,
                   numHandles, live, revokeCount, blobOf, downloads>>

\* postJSON resolves: setAbc(res.abc), then the render request is issued
NotationOk(g, text) ==
    /\ gens[g].pc = "notation"
    /\ abc' = SetState(text, abc)
    /\ gens' = [gens EXCEPT ![g].pc = "render", ![g].res = text,
                            ![g].sent = RenderPayload(text, abc),
                            ![g].issued = Append(gens[g].issued, RenderEndpoint)]
    /\ UNCHANGED <<mounted, fastDone, page, mode, loading, error, audioUrl, numGens, exports,
                   numExports, numHandles, live, revokeCount, blobOf, downloads>>

\* postJSON rejects
NotationFail(g, e) ==
    /\ gens[g].pc = "notation"
    /\ Fail(g, e)

\* runFast's postBlob resolves: revoke, publish, then finally { setLoading(false) }
RenderOk(g) ==
    /\ gens[g].pc = "render"
    /\ Publish(gens[g].audioUrl, Blob(RenderEndpoint, gens[g].sent, <<"gen", g>>))
    /\ loading' = SetState(FALSE, loading)
    /\ gens' = [gens EXCEPT ![g].pc = "ready", ![g].created = NewHandle]
    /\ fastDone' = SetState(fastDone \cup {gens[g].res}, fastDone)
    /\ UNCHANGED <<mounted, page, mode, error, abc, numGens, exports, numExports,
                   downloads>>

\* runFast's postBlob rejects
RenderFail(g, e) ==
    /\ gens[g].pc = "render"
    /\ Fail(g, e)

\* runDirect's postBlob resolves
DirectOk(g) ==
    /\ gens[g].pc = "direct"
    /\ Publish(gens[g].audioUrl, Blob(DirectEndpoint, Null, <<"gen", g>>))
    /\ loading' = SetState(FALSE, loading)
    /\ gens' = [gens EXCEPT ![g].pc = "ready", ![g].created = NewHandle]
    /\ UNCHANGED <<mounted, fastDone, page, mode, error, abc, numGens, exports, numExports,
                   downloads>>

\* runDirect's postBlob rejects
DirectFail(g, e) ==
    /\ gens[g].pc = "direct"
    /\ Fail(g, e)

(* ------------------------------- export -------------------------------- *)
\* {mode === "fast" && abc && (...)} in AITone, {abc && (...)} in Chatbot
DownloadButtonsShown ==
    IF page = "AITone" THEN mode = "fast" /\ Truthy(abc) ELSE Truthy(abc)

OnDownloadReturnsOnNull(a) == a = Null

\* if (!abc) return;
OnDownloadReturns(a) == ~Truthy(a)

\* onDownload(kind) up to its await.  The handler is modelled as callable in
\* every state, so that its own guard decides.
OnDownload(kind) ==
    /\ mounted
    /\ numExports < MaxExports
    /\ numExports' = numExports + 1
    /\ IF OnDownloadReturns(abc)
       THEN exports' = [Forget(exports, NoExport) EXCEPT ![numExports + 1] =
                          [NoExport EXCEPT !.pc = "returned", !.kind = kind,
                                           !.abc = abc]]
       ELSE exports' = [Forget(exports, NoExport) EXCEPT ![numExports + 1] =
                          [NoExport EXCEPT !.pc = "flight", !.kind = kind,
                                           !.abc = abc]]
    /\ UNCHANGED <<mounted, fastDone, page, mode, loading, error, abc, audioUrl, gens, numGens,
                   numHandles, live, revokeCount, blobOf, downloads>>

ExportOkLeaks(e) ==
    /\ exports[e].pc = "flight"
    /\ exports' = [exports EXCEPT ![e] = [NoExport EXCEPT !.pc = "done"]]
    /\ numHandles' = NewHandle
    /\ revokeCount' = revokeCount
    /\ live' = live \cup {NewHandle}
    /\ blobOf' = blobOf
    /\ downloads' = Append(downloads, Filename(page, exports[e].kind))
    /\ UNCHANGED <<mounted, fastDone, page, mode, loading, error, abc, audioUrl, gens, numGens,
                   numExports>>

\* postBlob resolves: downloadBlob(blob, filename) creates an object URL, clicks
\* a link to it and revokes it, all in one synchronous run
ExportOk(e) ==
    /\ exports[e].pc = "flight"
    /\ exports' = [exports EXCEPT ![e] = [NoExport EXCEPT !.pc = "done"]]
    /\ numHandles' = NewHandle
    /\ revokeCount' = [revokeCount EXCEPT ![NewHandle] = 1]
    /\ live' = live
    /\ blobOf' = blobOf
    /\ downloads' = Append(downloads, Filename(page, exports[e].kind))
    /\ UNCHANGED <<mounted, fastDone, page, mode, loading, error, abc, audioUrl, gens, numGens,
                   numExports>>

\* postBlob rejects: onDownload has no catch, the rejection is unhandled
ExportFail(e, t) ==
    /\ exports[e].pc = "flight"
    /\ exports' = [exports EXCEPT ![e] = [NoExport EXCEPT !.pc = "failed"]]
    /\ UNCHANGED <<mounted, fastDone, page, mode, loading, error, abc, audioUrl, gens, numGens,
                   numExports, numHandles, live, revokeCount, blobOf,
                   downloads>>

(* ------------------------------ teardown ------------------------------ *)
\* The page component is unmounted (the user leaves the page).  Neither page
\* registers a cleanup (no useEffect): nothing is revoked, and the requests in
\* flight keep their continuations.
Unmount ==
    /\ mounted
    /\ mounted' = FALSE
    /\ UNCHANGED <<page, mode, loading, error, abc, audioUrl, gens, numGens,
                   exports, numExports, numHandles, live, revokeCount, blobOf,
                   downloads, fastDone>>

(* ---------------------------- specification ---------------------------- *)
Next ==
    \/ \E m \in Modes : SetMode(m)
    \/ ClickGenerate
    \/ \E g \in GenIds, text \in Notations : NotationOk(g, text)
    \/ \E g \in GenIds, e \in Thrown : NotationFail(g, e)
    \/ \E g \in GenIds : RenderOk(g)
    \/ \E g \in GenIds, e \in Thrown : RenderFail(g, e)
    \/ \E g \in GenIds : DirectOk(g)
    \/ \E g \in GenIds, e \in Thrown : DirectFail(g, e)
    \/ \E kind \in Kinds : OnDownload(kind)
    \/ \E e \in ExportIds : ExportOk(e)
    \/ \E e \in ExportIds, t \in Thrown : ExportFail(e, t)

\* the session while its page is mounted
Spec == Init /\ [][Next]_vars

\* a request of a generation receives its response, success or failure
Respond ==
    \E g \in GenIds :
        \/ \E text \in Notations : NotationOk(g, text)
        \/ \E e \in Thrown : NotationFail(g, e)
        \/ RenderOk(g)
        \/ \E e \in Thrown : RenderFail(g, e)
        \/ DirectOk(g)
        \/ \E e \in Thrown : DirectFail(g, e)

\* the mounted session, every request of a generation being answered eventually
SpecResponsive == Spec /\ WF_vars(Respond)

\* the session and its teardown
NextTeardown == Next \/ Unmount

SpecTeardown == Init /\ [][NextTeardown]_vars

(* ------------------------- derived observations ------------------------ *)
\* SessionStatus as the page presents it: the button reads "Generating..." while
\* loading, the message is rendered by {error && ...}
Status ==
    IF loading THEN "Generating"
    ELSE IF Truthy(error) THEN "Failed"
    ELSE IF \E g \in GenIds : gens[g].pc \in {"ready", "failed"} THEN "Ready"
    ELSE "Idle"

InFlight == {g \in GenIds : gens[g].pc \in InFlightPc}

\* the requests awaiting their response
Pending ==
    {<<"gen", g, gens[g].issued[Len(gens[g].issued)]>> : g \in InFlight}
    \cup {<<"export", e, ExportEndpoint(exports[e].kind)>> :
             e \in {x \in ExportIds : exports[x].pc = "flight"}}

\* a notation is presented as it was before: the same text, or absent as before
SameNotation(now, before) ==
    IF Truthy(before) THEN now = before ELSE ~Truthy(now)

(* ------------------------------- claims -------------------------------- *)
\* C1: at most one playback handle is live at any time, it is the published
\* one, and every handle that is no longer the published one has been revoked
\* exactly once.
C1_OneLiveHandle ==
    /\ Cardinality(live) <= 1
    /\ live = {audioUrl} \ {NoHandle}
    /\ \A h \in 1..numHandles :
          revokeCount[h] = IF h = audioUrl THEN 0 ELSE 1

\* a handle published by one generation has been superseded by a later one,
\* with a failed generation in the session and no export involved
C1_Witness ==
    /\ numExports = 0
    /\ \E g \in GenIds : gens[g].pc = "failed"
    /\ \E h \in 1..numHandles : h # audioUrl /\ revokeCount[h] = 1
    /\ audioUrl \in live

\* C2: at most one generation is in flight, and while one is, the Generate
\* trigger accepts no second one.
C2_MutualExclusion ==
    /\ Cardinality(InFlight) <= 1
    /\ loading <=> InFlight # {}
    /\ loading => ~ENABLED ClickGenerate

\* a generation is in flight and the session could still follow another one
C2_Witness == loading /\ Cardinality(InFlight) = 1 /\ numGens < MaxGen

\* C3: when the render call of a Fast generation fails after its notation call
\* succeeded, the session is Failed and the published notation is the one
\* published before that generation started (or still absent).
C3_RenderFailureKeepsNotation ==
    \A g \in GenIds :
        (gens[g].pc = "failed" /\ gens[g].failedAt = "render")
        => /\ Status = "Failed"
           /\ SameNotation(abc, gens[g].startAbc)

\* C4: when a Direct generation fails, the notation and the audio handle
\* published before it started are both still published.
C4_DirectFailureKeepsLastGood ==
    \A g \in GenIds :
        (gens[g].pc = "failed" /\ gens[g].failedAt = "direct")
        => /\ Status = "Failed"
           /\ SameNotation(abc, gens[g].startAbc)
           /\ audioUrl = gens[g].audioUrl

\* C5: when the notation call of a Fast generation fails, the session is Failed
\* with the caught message, the generation issued no render request and created
\* no handle, the published notation and audio handle are those published
\* before it started, and the failing step itself touches no handle.
C5_NotationFailureState ==
    \A g \in GenIds :
        (gens[g].pc = "failed" /\ gens[g].failedAt = "notation")
        => /\ Status = "Failed"
           /\ error = CatchMessage(gens[g].thrown)
           /\ abc = gens[g].startAbc
           /\ audioUrl = gens[g].audioUrl
           /\ gens[g].created = NoHandle
           /\ gens[g].issued = <<NotationEndpoint(page)>>
           /\ (audioUrl # NoHandle => audioUrl \in live /\ revokeCount[audioUrl] = 0)

C5_NotationFailureStep ==
    \A g \in GenIds :
        (gens[g].pc = "notation" /\ gens'[g].pc = "failed")
        => UNCHANGED <<abc, audioUrl, numHandles, live, revokeCount, blobOf>>

C5_NotationFailure ==
    [](C5_NotationFailureState) /\ [][C5_NotationFailureStep]_vars

\* a notation call failed in a session that had a notation and a handle published
C5_Witness ==
    \E g \in GenIds :
        /\ gens[g].pc = "failed" /\ gens[g].failedAt = "notation"
        /\ Truthy(gens[g].startAbc) /\ gens[g].audioUrl # NoHandle

\* what a successful Fast generation g has published
FastPublished(g) ==
    /\ Status = "Ready"
    /\ abc = gens[g].res
    /\ gens[g].sent = gens[g].res
    /\ audioUrl = gens[g].created
    /\ audioUrl \in live
    /\ blobOf[audioUrl] = Blob(RenderEndpoint, abc, <<"gen", g>>)

\* C6 (as amended): after a successful Fast generation the session is Ready, the
\* published notation is the text the notation call returned, whatever that
\* text is, and the published handle resolves to the bytes returned by that
\* generation's render call, which was sent exactly that text.
C6_FastPublishesWhatWasReturned ==
    \A g \in GenIds :
        (gens[g].pc = "ready" /\ gens[g].mode = "fast") => FastPublished(g)

\* C6 (as stated): the above, and the published notation is non-empty.
C6_FastPublishesNonEmpty ==
    \A g \in GenIds :
        (gens[g].pc = "ready" /\ gens[g].mode = "fast")
        => FastPublished(g) /\ Truthy(abc)

\* a Fast generation replaced a published notation by a different, non-empty one
C6_Witness ==
    \E g \in GenIds :
        /\ gens[g].pc = "ready" /\ gens[g].mode = "fast"
        /\ Truthy(gens[g].startAbc) /\ Truthy(abc) /\ abc # gens[g].startAbc

\* C7: after a successful Direct generation the session is Ready with the
\* handle that generation created and no notation, whatever was published
\* before.
C7_DirectClearsNotation ==
    \A g \in GenIds :
        (gens[g].pc = "ready" /\ gens[g].mode = "direct")
        => /\ Status = "Ready"
           /\ abc = Null
           /\ audioUrl = gens[g].created
           /\ blobOf[audioUrl] = Blob(DirectEndpoint, Null, <<"gen", g>>)

\* a Direct generation succeeded in a session that had a notation published
C7_Witness ==
    \E g \in GenIds :
        /\ gens[g].pc = "ready" /\ gens[g].mode = "direct"
        /\ Truthy(gens[g].startAbc)

\* the requests a generation may have issued: each endpoint of its protocol at
\* most once, in order
IssuedOnce(g) ==
    IF gens[g].mode = "fast"
    THEN gens[g].issued \in {<<NotationEndpoint(page)>>,
                             <<NotationEndpoint(page), RenderEndpoint>>}
    ELSE gens[g].issued = <<DirectEndpoint>>

C8_FailureStep ==
    /\ \A g \in GenIds :
          (gens[g].pc \in InFlightPc /\ gens'[g].pc = "failed")
          => Truthy(error') /\ ~loading' /\ IssuedOnce(g) /\ Pending' \subseteq Pending
    /\ \A e \in ExportIds :
          (exports[e].pc = "flight" /\ exports'[e].pc = "failed")
          => Truthy(error') /\ Pending' \subseteq Pending

\* C8: the step in which a request of the session fails (notation, render,
\* direct render or export) leaves the session showing a failure message, and
\* issues no request.
C8_EveryFailureSurfaced == [][C8_FailureStep]_vars

\* C9: a Ready session (not loading, no failure message, a generation
\* completed) has a published, live audio handle.
C9_ReadyHasAudio ==
    Status = "Ready" => audioUrl # NoHandle /\ audioUrl \in live

\* a Ready session without notation, and one reached after an earlier failure
C9_Witness ==
    /\ Status = "Ready"
    /\ abc = Null
    /\ \E g \in GenIds : gens[g].pc = "failed"

C10_NoNotationStep ==
    (numExports' = numExports + 1 /\ ~Truthy(abc))
    => /\ exports'[numExports'].pc = "returned"
       /\ Pending' = Pending
       /\ UNCHANGED <<downloads, numHandles, live, revokeCount, blobOf>>

C10_ReturnedStays ==
    /\ \A e \in ExportIds :
          exports[e].pc = "returned" => exports'[e].pc = "returned"
    /\ downloads' # downloads
       => \E e \in ExportIds :
            /\ exports[e].pc = "flight" /\ exports'[e].pc = "done"
            /\ Truthy(exports[e].abc)

\* C10: onDownload invoked while no notation is published (null or the empty
\* text) returns at once: it issues no request and produces no download, it
\* stays returned, and a download is only ever produced by an invocation that
\* sent a non-empty notation.
C10_ExportWithoutNotation ==
    [][C10_NoNotationStep /\ C10_ReturnedStays]_vars

\* onDownload has returned early, once with the empty text published
C10_Witness ==
    \E e \in ExportIds :
        /\ exports[e].pc = "returned" /\ exports[e].abc = ""
        /\ downloads = <<>>

C11_ExportRequestStep ==
    \A e \in ExportIds :
        (exports[e].pc # "flight" /\ exports'[e].pc = "flight")
        => exports'[e].abc \in fastDone

\* C11: every export request is issued after a Fast generation that ended
\* ready, and the notation it sends is the notation of such a generation.
C11_ExportOnlyAfterFastSuccess == [][C11_ExportRequestStep]_vars

\* C13: once the page is unmounted no object URL of the session is live: the
\* published handle has been revoked.
C13_TeardownReleases == ~mounted => live = {}

C14_SwitchStep ==
    mode' # mode
    => UNCHANGED <<abc, audioUrl, error, loading, gens, numGens, exports,
                   numExports, numHandles, live, revokeCount, blobOf, downloads>>

\* C14: a step that changes the mode changes nothing else: notation, audio
\* handle, failure message, loading flag, the invocations in flight and the
\* object URLs are as before.
C14_ModeSwitchChangesOnlyMode == [][C14_SwitchStep]_vars

\* the mode was switched to direct while a Fast generation is in flight and a
\* notation and a handle are published
C14_Witness ==
    /\ mode = "direct"
    /\ loading
    /\ \E g \in GenIds : gens[g].pc \in InFlightPc /\ gens[g].mode = "fast"
    /\ Truthy(abc)
    /\ audioUrl # NoHandle

\* C12: with every request answered eventually, a Generating session always
\* reaches Ready or Failed, and whenever the session is not Generating (and the
\* generations followed here are not used up) Generate can be started.
C12_NoTerminalState ==
    /\ loading ~> (Status \in {"Ready", "Failed"})
    /\ [](((~loading) /\ numGens < MaxGen) => ENABLED ClickGenerate)

\* a generation is in flight in a session that has been both Failed and Ready
C12_Witness ==
    /\ loading
    /\ \E g \in GenIds : gens[g].pc = "failed"
    /\ \E g \in GenIds : gens[g].pc = "ready"

C15_FastSequentialState ==
    \A g \in GenIds :
        gens[g].mode = "fast"
        => /\ gens[g].pc = "notation"
              => gens[g].issued = <<NotationEndpoint(page)>> /\ gens[g].res = Null
           /\ gens[g].pc = "render"
              => /\ gens[g].issued = <<NotationEndpoint(page), RenderEndpoint>>
                 /\ gens[g].res \in Notations
                 /\ gens[g].sent = gens[g].res
           /\ (gens[g].pc = "failed" /\ gens[g].failedAt = "notation")
              => gens[g].issued = <<NotationEndpoint(page)>>
           /\ Cardinality({r \in Pending : r[1] = "gen" /\ r[2] = g}) <= 1

C15_FastSequentialStep ==
    \A g \in GenIds :
        (Len(gens[g].issued) < 2 /\ Len(gens'[g].issued) = 2)
        => /\ gens[g].pc = "notation" /\ gens'[g].pc = "render"
           /\ gens'[g].res \in Notations

\* C15: a Fast generation waiting for its notation has issued the notation
\* request only; the render request is issued in the step in which the notation
\* call returns a text, and carries that text; a generation whose notation
\* call failed has issued no render request; a generation never has two
\* requests pending.
C15_FastCallsSequential ==
    [](C15_FastSequentialState) /\ [][C15_FastSequentialStep]_vars

\* the render request of a Fast generation is in flight, after its notation call
C15_Witness ==
    \E g \in GenIds :
        /\ gens[g].pc = "render" /\ Truthy(gens[g].res)
        /\ <<"gen", g, RenderEndpoint>> \in Pending

\* C16: while a generation is in flight there is no failure message, the audio
\* handle published before it started is still published, and until the
\* generation has published a notation of its own the notation published before
\* it started is still published.
C16_GeneratingKeepsResults ==
    \A g \in InFlight :
        /\ error = Null
        /\ audioUrl = gens[g].audioUrl
        /\ gens[g].pc \in {"notation", "direct"} => SameNotation(abc, gens[g].startAbc)

C17_ExportStep ==
    exports' # exports
    => /\ UNCHANGED <<abc, audioUrl, error, loading, mode, gens, live, blobOf>>
       /\ \A h \in Handles :
              (h > numHandles /\ h <= numHandles')
              => h \notin live' /\ revokeCount'[h] = 1

\* C17: a step of an export (its start, its download, its failure) leaves the
\* published notation, the published audio handle, the failure message and the
\* generating flag unchanged, and the handle it creates for the download is
\* already released, exactly once, when the step ends: the set of live handles
\* is unchanged.
C17_ExportPublishesNothing == [][C17_ExportStep]_vars

\* a download has happened while an audio handle is published
C17_Witness ==
    /\ \E e \in ExportIds : exports[e].pc = "done"
    /\ Len(downloads) > 0
    /\ audioUrl # NoHandle /\ live = {audioUrl}
    /\ numHandles > Cardinality(live)

C18_PublishedIsLive ==
    audioUrl # NoHandle => audioUrl \in live /\ revokeCount[audioUrl] = 0

C18_ReplaceStep ==
    /\ audioUrl' # audioUrl
       => /\ audioUrl' \in live'
          /\ audioUrl # NoHandle
             => audioUrl \notin live' /\ revokeCount'[audioUrl] = 1
    /\ \A h \in 1..numHandles :
           revokeCount'[h] # revokeCount[h]
           => h = audioUrl /\ audioUrl' # audioUrl

\* C18: the published audio handle is always a live handle that has never been
\* released; the step that installs a replacement is the step that releases
\* the previous handle; and a handle that exists is released only if it is the
\* published one, in the step that replaces it.
C18_ReleaseAtomicWithPublish ==
    [](C18_PublishedIsLive) /\ [][C18_ReplaceStep]_vars

\* a generation has replaced a published handle: every earlier handle is released
C18_Witness ==
    /\ audioUrl >= 2 /\ audioUrl \in live
    /\ \A h \in 1..(audioUrl - 1) : revokeCount[h] = 1
    /\ \E g \in GenIds :
           gens[g].pc = "ready" /\ gens[g].audioUrl # NoHandle
           /\ gens[g].created = audioUrl

C19_ProtocolState ==
    \A g \in GenIds :
        /\ gens[g].pc \in {"notation", "render"} => gens[g].mode = "fast"
        /\ gens[g].pc = "direct" => gens[g].mode = "direct"
        /\ gens[g].pc = "notation"
           => \A text \in Notations : ENABLED NotationOk(g, text)
        /\ gens[g].pc = "render" => ENABLED RenderOk(g)
        /\ gens[g].pc = "direct" => ENABLED DirectOk(g)
        /\ (gens[g].pc = "ready" /\ gens[g].mode = "fast")
           => abc = gens[g].res /\ audioUrl = gens[g].created
        /\ (gens[g].pc = "ready" /\ gens[g].mode = "direct")
           => abc = Null /\ audioUrl = gens[g].created

C19_SwitchStep ==
    mode' # mode => gens' = gens /\ Pending' = Pending /\ loading' = loading

\* C19: a generation runs the protocol of the mode captured at its click
\* whatever the mode is now; a mode switch changes neither the generations in
\* flight nor the pending requests; every response of a generation in flight
\* can arrive in either mode, and a generation that completed has published its
\* own protocol's result.
C19_ProtocolFixedAtTrigger ==
    [](C19_ProtocolState) /\ [][C19_SwitchStep]_vars

\* the render of a Fast generation is about to publish while the mode is Direct
C19_Witness ==
    /\ mode = "direct"
    /\ \E g \in GenIds :
           /\ gens[g].mode = "fast" /\ gens[g].pc = "render"
           /\ Truthy(gens[g].res) /\ abc = gens[g].res
           /\ ENABLED RenderOk(g)

====
